---- MODULE Spec2Model ----
(***************************************************************************)
(* Model of the EEOC pipeline: etl/transform.py (transform_data),          *)
(* analysis/model.py (run_analysis), analysis/evaluate.py                  *)
(* (evaluate_models), vis/visualizations.py (visualize_all) and main.py    *)
(* (main).  Tables are sequences of rows; a row maps column names to       *)
(* cells; a cell is [null, n, s] with n the number of a numeric cell and   *)
(* s the characters of a text cell.                                        *)
(***************************************************************************)
EXTENDS Integers, Sequences, FiniteSets, TLC

VARIABLES
    tIn,      \* transform_data alone: the data/extracted listing, file contents, typed choice
    tPc,      \* transform_data alone: "idle" | "done"
    tOut,     \* transform_data alone: what the call returned and wrote
    dIn,      \* feature derivation alone: the table read
    dPc,      \* feature derivation alone: "idle" | "done"
    dOut,     \* feature derivation alone: the enriched rows (df_clean)
    source,   \* data/EEO1_2023_PUF.csv: [exists, table]
    extracted,\* data/extracted: [files (the .csv listing), content]
    procDir,  \* whether data/processed exists
    processed,\* data/processed: [files (the listing), content of the transformed_ files]
    disk,     \* the files of data/analysis and data/evaluation, by path
    pc,       \* where main is
    run,      \* the number of the pipeline run
    log,      \* pipeline.log, the entries of this run
    ra,       \* what run_analysis returned, printed and wrote in this run
    ev,       \* what evaluate_models did in this run
    vis,      \* what visualize_all did in this run
    started,  \* the stages main has started in this run, in order
    outcome,  \* per stage: "pending" | "ok" | "failed"
    exitStatus, \* the status main exited with (0 while it has not called sys.exit)
    hist      \* per finished run_analysis call: the table it read and its result

tvars == <<tIn, tPc, tOut>>
dvars == <<dIn, dPc, dOut>>
fvars == <<source, extracted, procDir, processed, disk>>
mvars == <<pc, run, log, ra, ev, vis, started, outcome, exitStatus, hist>>
pvars == <<fvars, mvars>>
vars == <<tvars, dvars, pvars>>

----------------------------------------------------------------------------
(* Bounds of the model *)

MaxTRows == 2
MaxFiles == 2
MaxCount == 4
MaxTotal == 5
MaxRows == 3
MaxRuns == 2

----------------------------------------------------------------------------
(* Cells, rows, tables *)

Null == [null |-> TRUE, n |-> 0, s |-> <<>>]
Num(n) == [null |-> FALSE, n |-> n, s |-> <<>>]
Txt(s) == [null |-> FALSE, n |-> 0, s |-> s]

TextCols == {"NAICS2_Name", "Industry_Sector", "Region"}

IsText(c) == c \in TextCols

SeqToSet(s) == {s[i] : i \in DOMAIN s}

(* str.strip(): leading and trailing whitespace removed *)
RECURSIVE LStrip(_)
LStrip(s) == IF s # <<>> /\ Head(s) = " " THEN LStrip(Tail(s)) ELSE s

RECURSIVE RStrip(_)
RStrip(s) ==
    IF s # <<>> /\ s[Len(s)] = " " THEN RStrip(SubSeq(s, 1, Len(s) - 1)) ELSE s

Strip(s) == RStrip(LStrip(s))

(* DataFrame.drop_duplicates(): the first of each group of equal rows is kept *)
RECURSIVE DropDuplicates(_)
DropDuplicates(rows) ==
    IF rows = <<>> THEN <<>>
    ELSE LET init == DropDuplicates(SubSeq(rows, 1, Len(rows) - 1))
             last == rows[Len(rows)]
         IN  IF last \in SeqToSet(init) THEN init ELSE Append(init, last)

HasNull(row) == \E c \in DOMAIN row : row[c].null

(* DataFrame.dropna(): rows with a null in any column are removed *)
DropNa(rows) == SelectSeq(rows, LAMBDA r : ~HasNull(r))

StripCell(c, cell) ==
    IF IsText(c) /\ ~cell.null THEN Txt(Strip(cell.s)) ELSE cell

StripRowAll(row) == [c \in DOMAIN row |-> StripCell(c, row[c])]

(* transform.py 66-68: every object column is stripped *)
StripRow(row) == StripRowAll(row)

StripRows(rows) == [i \in DOMAIN rows |-> StripRow(rows[i])]

----------------------------------------------------------------------------
(* CSV hand-off: to_csv writes a null and an empty string as the same empty
   field, so read_csv gives a null for both *)

EmptyTable == [cols |-> {}, rows |-> <<>>]

CsvCell(c, cell) == IF IsText(c) /\ ~cell.null /\ cell.s = <<>> THEN Null ELSE cell

ToCsv(t) ==
    [cols |-> t.cols,
     rows |-> [i \in DOMAIN t.rows |->
                 [c \in t.cols |-> CsvCell(c, t.rows[i][c])]]]

----------------------------------------------------------------------------
(* int(choice): optional surrounding whitespace, optional sign, digits *)

Digits == <<"0", "1", "2", "3", "4", "5", "6", "7", "8", "9">>

IsDigit(ch) == \E d \in DOMAIN Digits : Digits[d] = ch

DigitVal(ch) == (CHOOSE d \in DOMAIN Digits : Digits[d] = ch) - 1

RECURSIVE DigitsVal(_)
DigitsVal(s) ==
    IF s = <<>> THEN 0
    ELSE 10 * DigitsVal(SubSeq(s, 1, Len(s) - 1)) + DigitVal(s[Len(s)])

AllDigits(s) == s # <<>> /\ \A i \in DOMAIN s : IsDigit(s[i])

Unsigned(s) == IF s # <<>> /\ Head(s) \in {"-", "+"} THEN Tail(s) ELSE s

IntOk(choice) == AllDigits(Unsigned(Strip(choice)))

IntVal(choice) ==
    LET s == Strip(choice)
    IN  IF s # <<>> /\ Head(s) = "-" THEN 0 - DigitsVal(Tail(s))
        ELSE DigitsVal(Unsigned(s))

(* files[idx] of a Python list: indices -N..N-1 are valid, negative ones count
   from the end; anything else raises IndexError *)
PyIndexOk(files, idx) == 0 - Len(files) <= idx /\ idx <= Len(files) - 1

PyIndex(files, idx) == IF idx >= 0 THEN files[idx + 1] ELSE files[Len(files) + idx + 1]

----------------------------------------------------------------------------
(* Percentages: count / total * 100 in IEEE arithmetic.  A finite value is the
   exact fraction n/d (d > 0); division by zero gives inf, -inf or nan. *)

NaN == [k |-> "nan", n |-> 0, d |-> 1]
PInf == [k |-> "inf", n |-> 0, d |-> 1]
NInf == [k |-> "ninf", n |-> 0, d |-> 1]
Abs(n) == IF n < 0 THEN 0 - n ELSE n

RECURSIVE Gcd(_, _)
Gcd(a, b) == IF b = 0 THEN a ELSE Gcd(b, a % b)

(* the fraction n/d (d # 0) in lowest terms with a positive denominator *)
Fin(n, d) ==
    LET g == Gcd(Abs(n), Abs(d))
        sg == IF d < 0 THEN 0 - 1 ELSE 1
    IN  [k |-> "fin", n |-> (sg * n) \div g, d |-> (sg * d) \div g]

(* count / total * 100 for two numeric cells *)
Pct(count, total) ==
    IF count.null \/ total.null THEN NaN
    ELSE IF total.n = 0
         THEN (IF count.n = 0 THEN NaN ELSE IF count.n > 0 THEN PInf ELSE NInf)
         ELSE Fin(100 * count.n, total.n)

(* IEEE arithmetic on these values, as far as run_analysis uses it *)
IsFin(x) == x.k = "fin"

FNeg(x) ==
    IF x.k = "nan" THEN NaN
    ELSE IF x.k = "inf" THEN NInf
    ELSE IF x.k = "ninf" THEN PInf
    ELSE Fin(0 - x.n, x.d)

FAdd(x, y) ==
    IF x.k = "nan" \/ y.k = "nan" THEN NaN
    ELSE IF IsFin(x) /\ IsFin(y) THEN Fin(x.n * y.d + y.n * x.d, x.d * y.d)
    ELSE IF IsFin(x) THEN y
    ELSE IF IsFin(y) THEN x
    ELSE IF x.k = y.k THEN x
    ELSE NaN

FSub(x, y) == FAdd(x, FNeg(y))

FSquare(x) ==
    IF x.k = "nan" THEN NaN
    ELSE IF IsFin(x) THEN Fin(x.n * x.n, x.d * x.d)
    ELSE PInf

FDivInt(x, m) == IF IsFin(x) THEN Fin(x.n, x.d * m) ELSE x

FInt(m) == Fin(m, 1)

FEq(x, y) == IsFin(x) /\ IsFin(y) /\ x.n * y.d = y.n * x.d

FLess(x, y) ==
    IF x.k = "nan" \/ y.k = "nan" THEN FALSE
    ELSE IF IsFin(x) /\ IsFin(y) THEN x.n * y.d < y.n * x.d
    ELSE IF x.k = "ninf" THEN y.k # "ninf"
    ELSE IF y.k = "inf" THEN x.k # "inf"
    ELSE FALSE

FLeq(x, y) == FLess(x, y) \/ FEq(x, y) \/ (x.k = y.k /\ x.k \in {"inf", "ninf"})

----------------------------------------------------------------------------
(* etl/transform.py *)

RenameMap(c) ==
    IF c = "NAICS2_Name" THEN "Industry_Sector"
    ELSE IF c = "TOTAL10" THEN "Total_Employees"
    ELSE c

(* DataFrame.rename(columns=rename_map) *)
Rename(t) ==
    LET newcols == {RenameMap(c) : c \in t.cols}
        old(nc) == CHOOSE c \in t.cols : RenameMap(c) = nc
    IN  [cols |-> newcols,
         rows |-> [i \in DOMAIN t.rows |-> [nc \in newcols |-> t.rows[i][old(nc)]]]]

(* transform.py 85-86: the percentage column, guarded by the column names *)
AddPctWhite(t) ==
    IF "WHT10" \in t.cols /\ "TOTAL10" \in t.cols
    THEN [cols |-> t.cols \cup {"Pct_White"},
          rows |-> [i \in DOMAIN t.rows |->
                      [c \in t.cols \cup {"Pct_White"} |->
                         IF c = "Pct_White"
                         THEN Pct(t.rows[i]["WHT10"], t.rows[i]["TOTAL10"])
                         ELSE t.rows[i][c]]]]
    ELSE t

(* transform.py 60-86: the cleaning steps in the order the code runs them *)
Clean(t) ==
    AddPctWhite(Rename([cols |-> t.cols,
                        rows |-> StripRows(DropNa(DropDuplicates(t.rows)))]))

TNone(msgs, raised) ==
    [ret |-> "None", df |-> EmptyTable, msgs |-> msgs, raised |-> raised,
     read |-> <<>>, wrote |-> <<>>, file |-> EmptyTable]

(* transform_data(): files is the .csv listing of data/extracted, content the
   files' tables, choice the text typed at the prompt, hasProcDir whether
   data/processed exists *)
transform_data(files, content, choice, hasProcDir) ==
    IF files = <<>> THEN TNone(<<"No CSV files found">>, FALSE)
    ELSE IF ~IntOk(choice) \/ ~PyIndexOk(files, IntVal(choice) - 1)
    THEN TNone(<<"Invalid selection. Exiting.">>, FALSE)
    ELSE LET filename == PyIndex(files, IntVal(choice) - 1)
             df == Clean(content[filename])
         IN  IF ~hasProcDir
             THEN [TNone(<<>>, TRUE) EXCEPT !.read = <<filename>>]
             ELSE [ret |-> "df", df |-> df, msgs |-> <<"Cleaned data saved">>,
                   raised |-> FALSE, read |-> <<filename>>,
                   wrote |-> <<filename>>, file |-> ToCsv(df)]

----------------------------------------------------------------------------
(* analysis/model.py: the feature derivation of run_analysis (lines 40-71) *)

TotalAliases == <<"Total_Employees", "TOTAL10", "TOTAL1">>

HasTotalCol(cols) == \E i \in DOMAIN TotalAliases : TotalAliases[i] \in cols

(* next(c for c in [...] if c in df.columns): the first alias present *)
TotalCol(cols) ==
    TotalAliases[CHOOSE i \in DOMAIN TotalAliases :
                    /\ TotalAliases[i] \in cols
                    /\ \A j \in 1..(i - 1) : TotalAliases[j] \notin cols]

PctCols == <<"Pct_White", "Pct_Black", "Pct_Hispanic", "Pct_Asian">>

PctNames == SeqToSet(PctCols)

DemoCol(p) ==
    IF p = "Pct_White" THEN "WHT10"
    ELSE IF p = "Pct_Black" THEN "BLKT10"
    ELSE IF p = "Pct_Hispanic" THEN "HISPT10"
    ELSE "ASIANT10"

(* pd.to_numeric(errors='coerce'): text that is no number becomes null *)
ToNumeric(cell) ==
    IF cell.null \/ cell.s = <<>> THEN cell
    ELSE IF IntOk(cell.s) THEN Num(IntVal(cell.s))
    ELSE Null

(* model.py 56-61: the four percentage fields of one row; an absent count
   column makes the field null in every row *)
RowPct(cols, row) ==
    [p \in PctNames |->
        IF DemoCol(p) \in cols
        THEN Pct(ToNumeric(row[DemoCol(p)]), ToNumeric(row[TotalCol(cols)]))
        ELSE NaN]

(* what dropna(subset=pct_cols) treats as missing: nan, not inf *)
IsNa(x) == x.k = "nan"

PctComplete(pct) == \A p \in PctNames : ~IsNa(pct[p])

RECURSIVE FSum(_, _)
FSum(f, names) ==
    IF names = <<>> THEN FInt(0)
    ELSE FAdd(FSum(f, Tail(names)), f[Head(names)])

DiversityNoSquare(pct) ==
    FSub(FInt(1), FSum([p \in PctNames |-> FDivInt(pct[p], 100)], PctCols))

(* model.py 71: 1 - sum((row/100)**2) *)
DiversityIndex(pct) ==
    FSub(FInt(1), FSum([p \in PctNames |-> FSquare(FDivInt(pct[p], 100))], PctCols))

(* model.py 70-71: the derived fields of a surviving row *)
EnrichRow(cols, row) ==
    LET pct == RowPct(cols, row)
    IN  [row |-> row, pct |-> pct,
         Pct_Minority |-> FSub(FInt(100), pct["Pct_White"]),
         Diversity_Index |-> DiversityIndex(pct)]

(* model.py 54-71: df_clean with its derived columns *)
Enriched(t) ==
    LET kept == SelectSeq(t.rows, LAMBDA r : PctComplete(RowPct(t.cols, r)))
    IN  [i \in DOMAIN kept |-> EnrichRow(t.cols, kept[i])]

----------------------------------------------------------------------------
(* analysis/model.py: clustering, regression and the digest of run_analysis *)

NumClusters == 3
RandomState == 42
TestPercent == 20

Min(a, b) == IF a < b THEN a ELSE b

Range(f) == {f[x] : x \in DOMAIN f}

(* the feature matrix X = df_clean[pct_cols] *)
Features(df) == [i \in DOMAIN df |-> df[i].pct]

AllFiniteX(X) == \A i \in DOMAIN X : \A p \in PctNames : IsFin(X[i][p])

(* KMeans(n_clusters=3, ...).fit_predict(X) raises ValueError on a non-finite
   value and on fewer samples than clusters *)
FitRaises(X) == ~AllFiniteX(X) \/ Len(X) < NumClusters

(* The partition k-means settles on: equal points share a label and
   min(3, number of distinct points) labels are used.  Which partition it is
   is fixed by X; the numbering of the labels depends on the seed. *)
BaseLabeling(D) ==
    CHOOSE f \in [D -> 0..(NumClusters - 1)] :
        Cardinality(Range(f)) = Min(NumClusters, Cardinality(D))

KMeansLabels(X, seed) ==
    LET base == BaseLabeling(Range(X))
    IN  [i \in DOMAIN X |-> (base[X[i]] + seed) % NumClusters]

KMeansSeedFromEntropy(r) == r

(* model.py 87: random_state=42, the same in every run r *)
KMeansSeed(r) == RandomState

(* silhouette_score(X, labels): ValueError unless 2 <= n_labels <= n_samples - 1;
   the score itself is kept as the term it is computed from *)
ScoreRaises(X, labels) ==
    ~(2 <= Cardinality(Range(labels)) /\ Cardinality(Range(labels)) <= Len(X) - 1)

Silhouette(X, labels) == [X |-> X, labels |-> labels]

(* model.py 93: the rows of clustered_employers.csv, df_clean[['Cluster'] + pct_cols] *)
ClusteredRowsDroppingLast(df, labels) ==
    [i \in 1..(Len(df) - 1) |-> [Cluster |-> labels[i], pct |-> df[i].pct]]

ClusteredRows(df, labels) ==
    [i \in DOMAIN df |-> [Cluster |-> labels[i], pct |-> df[i].pct]]

(* model.py 104-107: the predictors and the rows the regression keeps *)
RegFeatures(cols) ==
    {"Region"} \cup (IF "Industry_Sector" \in cols THEN {"Industry_Sector"} ELSE {})

RegRows(cols, df) ==
    SelectSeq(df, LAMBDA e : \A c \in RegFeatures(cols) : ~e.row[c].null)

(* pd.get_dummies(..., drop_first=True): one column per category but the first *)
DummyCount(cols, rows) ==
    LET cnt(c) == Cardinality({rows[i].row[c] : i \in DOMAIN rows})
        both == IF "Industry_Sector" \in cols /\ rows # <<>>
                THEN cnt("Industry_Sector") - 1 ELSE 0
    IN  (IF rows = <<>> THEN 0 ELSE cnt("Region") - 1) + both

(* train_test_split(test_size=0.2): n_test = ceil(0.2 n); an empty train set
   raises ValueError *)
TestSize(n) == (n * TestPercent + 99) \div 100

(* model.py 111-116: the split, the fit and the scoring raise in these cases *)
RegressionRaises(cols, rows) ==
    \/ Len(rows) - TestSize(Len(rows)) < 1
    \/ DummyCount(cols, rows) = 0
    \/ \E i \in DOMAIN rows : ~IsFin(rows[i].pct["Pct_White"])

SplitSeed(r) == RandomState

(* R^2 and MSE on the held-out rows, kept as the term they are computed from *)
RegressionScore(rows, seed) ==
    [rows |-> rows, seed |-> seed, n_test |-> TestSize(Len(rows))]

----------------------------------------------------------------------------
(* Files of data/analysis, data/evaluation and data/outputs *)

DescStatsCsv == "analysis/descriptive_stats.csv"
RegionRankedCsv == "analysis/comparative_region_ranked.csv"
ClusterSummaryCsv == "analysis/cluster_summary.csv"
ClusteredCsv == "analysis/clustered_employers.csv"
SilhouetteTxt == "evaluation/silhouette_score.txt"
PredictedCsv == "analysis/predicted_diversity.csv"
RegScoreTxt == "evaluation/regression_score.txt"
InsightsTxt == "analysis/insights.txt"
ClusterEvalTxt == "analysis/cluster_evaluation.txt"
EvalRegScoreTxt == "analysis/regression_score.txt"
VisRegionCsv == "analysis/comparative_region.csv"

FileKeys ==
    {DescStatsCsv, RegionRankedCsv, ClusterSummaryCsv, ClusteredCsv, SilhouetteTxt,
     PredictedCsv, RegScoreTxt, InsightsTxt, ClusterEvalTxt, EvalRegScoreTxt,
     VisRegionCsv}

Absent == [present |-> FALSE, run |-> 0, data |-> <<>>]

Written(r, data) == [present |-> TRUE, run |-> r, data |-> data]

IsTransformed(name) == name.prefix = "transformed_"

TransformedName(filename) == [prefix |-> "transformed_", base |-> filename]

PlainName(filename) == [prefix |-> "", base |-> filename]

----------------------------------------------------------------------------
(* run_analysis() *)

ANone(msg) ==
    [ret |-> "None", df |-> <<>>, labels |-> <<>>, cluster |-> "none", reg |-> "none",
     msgs |-> <<msg>>, wrote |-> {}, files |-> [k \in FileKeys |-> <<>>]]

(* model.py 84-99: the clustering step on df_clean, in run r *)
ClusterStep(df, r) ==
    LET X == Features(df)
        labels == KMeansLabels(X, KMeansSeed(r))
    IN  IF FitRaises(X)
        THEN [status |-> "failed_fit", labels |-> <<>>, wrote |-> {},
              msg |-> "KMeans clustering failed"]
        ELSE IF ScoreRaises(X, labels)
        THEN [status |-> "failed_score", labels |-> labels,
              wrote |-> {ClusterSummaryCsv, ClusteredCsv},
              msg |-> "KMeans clustering failed"]
        ELSE [status |-> "ok", labels |-> labels,
              wrote |-> {ClusterSummaryCsv, ClusteredCsv, SilhouetteTxt},
              msg |-> "KMeans clustering and evaluation saved"]

(* model.py 101-126: the regression step *)
RegressionStep(cols, df) ==
    IF "Region" \notin cols
    THEN [status |-> "skipped", wrote |-> {}, msgs |-> <<>>]
    ELSE IF RegressionRaises(cols, RegRows(cols, df))
    THEN [status |-> "failed", wrote |-> {}, msgs |-> <<"Regression failed">>]
    ELSE [status |-> "ok", wrote |-> {PredictedCsv, RegScoreTxt},
          msgs |-> <<"Regression evaluation saved">>]

(* model.py 128-138: the lines of insights.txt; a pointer line is kept as the
   file it names.  wrote is what the steps before it wrote in this call. *)
Insights(cols, wrote) ==
    <<"Key DEI Insights:", "Average % White", "Average % Minority",
      "Average Diversity Index", ClusterSummaryCsv>>
    \o (IF "Region" \in cols THEN <<RegionRankedCsv>> ELSE <<>>)
    \o <<PredictedCsv>>

(* model.py 73-141 on a non-empty df_clean *)
Analyse(cols, df, r) ==
    LET cl == ClusterStep(df, r)
        rg == RegressionStep(cols, df)
        X == Features(df)
        region == IF "Region" \in cols THEN {RegionRankedCsv} ELSE {}
        regionMsg == IF "Region" \in cols
                     THEN <<"Comparative regional analysis saved">> ELSE <<>>
        wrote == {DescStatsCsv, InsightsTxt} \cup region \cup cl.wrote \cup rg.wrote
        data(k) ==
            IF k \notin wrote THEN <<>>
            ELSE IF k \in {DescStatsCsv, RegionRankedCsv} THEN df
            ELSE IF k = ClusterSummaryCsv THEN <<[df |-> df, labels |-> cl.labels]>>
            ELSE IF k = ClusteredCsv THEN ClusteredRows(df, cl.labels)
            ELSE IF k = SilhouetteTxt THEN <<Silhouette(X, cl.labels)>>
            ELSE IF k = PredictedCsv THEN RegRows(cols, df)
            ELSE IF k = RegScoreTxt
                 THEN <<RegressionScore(RegRows(cols, df), SplitSeed(r))>>
            ELSE Insights(cols, wrote)
    IN  [ret |-> "df", df |-> df, labels |-> cl.labels, cluster |-> cl.status,
         reg |-> rg.status,
         msgs |-> regionMsg \o <<cl.msg>> \o rg.msgs \o <<"insights report saved">>,
         wrote |-> wrote, files |-> [k \in FileKeys |-> data(k)]]

(* run_analysis(): listing is data/processed as os.listdir gives it, content
   the tables of its files, r the run *)
run_analysis(listing, content, r) ==
    LET files == SelectSeq(listing, IsTransformed)
        t == content[files[1]]
    IN  IF files = <<>> THEN ANone("No transformed CSV file found. Run transform first.")
        ELSE IF t.cols = {} THEN ANone("Error reading")
        ELSE IF ~HasTotalCol(t.cols) THEN ANone("No total employees column found")
        ELSE IF Enriched(t) = <<>>
        THEN ANone("No rows with complete demographic percentages found.")
        ELSE Analyse(t.cols, Enriched(t), r)

----------------------------------------------------------------------------
(* analysis/evaluate.py and vis/visualizations.py *)

ENone == [done |-> FALSE, raised |-> FALSE, msgs |-> <<>>, wrote |-> {},
          scored |-> <<>>, score |-> <<>>]

(* evaluate_models() on the files d *)
evaluate_models(d) ==
    LET rows == d[ClusteredCsv].data
        X == [i \in DOMAIN rows |-> rows[i].pct]
        labels == [i \in DOMAIN rows |-> rows[i].Cluster]
        regMsg == IF d[EvalRegScoreTxt].present
                  THEN <<"Regression evaluation:">>
                  ELSE <<"Regression results not found, run model.py first.">>
    IN  IF d[ClusteredCsv].present
        THEN IF ~AllFiniteX(X) \/ ScoreRaises(X, labels)
             THEN [done |-> TRUE, raised |-> TRUE, msgs |-> <<>>, wrote |-> {},
                   scored |-> <<>>, score |-> <<>>]
             ELSE [done |-> TRUE, raised |-> FALSE,
                   msgs |-> <<"Silhouette Score for KMeans clustering">> \o regMsg,
                   wrote |-> {ClusterEvalTxt},
                   scored |-> <<d[ClusteredCsv].run>>,
                   score |-> <<Silhouette(X, labels)>>]
        ELSE [done |-> TRUE, raised |-> FALSE,
              msgs |-> <<"Clustered data not found, run model.py first.">> \o regMsg,
              wrote |-> {}, scored |-> <<>>, score |-> <<>>]

VNone == [done |-> FALSE, raised |-> FALSE, msgs |-> <<>>, plots |-> {}, plotted |-> {}]

VisInputs == <<ClusteredCsv, VisRegionCsv, DescStatsCsv>>

VisMissing(k) ==
    IF k = ClusteredCsv THEN "clustered_employers.csv not found"
    ELSE IF k = VisRegionCsv THEN "comparative_region.csv not found"
    ELSE "descriptive_stats.csv not found"

(* visualize_all() on the files d; plotOk is whether matplotlib can draw and
   save (a figure that cannot be made raises out of the function) *)
RECURSIVE VisFrom(_, _, _, _)
VisFrom(d, plotOk, i, acc) ==
    IF i > Len(VisInputs) THEN acc
    ELSE LET k == VisInputs[i]
         IN  IF ~d[k].present
             THEN VisFrom(d, plotOk, i + 1,
                          [acc EXCEPT !.msgs = Append(@, VisMissing(k))])
             ELSE IF ~plotOk THEN [acc EXCEPT !.raised = TRUE]
             ELSE VisFrom(d, plotOk, i + 1,
                          [acc EXCEPT !.plots = @ \cup {k},
                                      !.plotted = @ \cup {<<k, d[k].run>>}])

visualize_all(d, plotOk) == VisFrom(d, plotOk, 1, [VNone EXCEPT !.done = TRUE])

----------------------------------------------------------------------------
(* main.py: main() *)

Stages == <<"Extract", "Transform", "Analyze", "Evaluate", "Visualize">>

CriticalStageAll(stage) == TRUE

CriticalStageNotAnalyze(stage) == stage \in {"Extract", "Transform"}

(* main.py 122-124, 133-135, 144-146: the handlers that call sys.exit(1);
   those of Evaluate and Visualize (160-161, 168-169) only log *)
CriticalStage(stage) == stage \in {"Extract", "Transform", "Analyze"}

AfterFailure(stage, next) == IF CriticalStage(stage) THEN "exit" ELSE next

StatusAlwaysZero(stage) == 0

StatusAfterFailure(stage) == IF CriticalStage(stage) THEN 1 ELSE 0

NoOutcome == [st \in Range(Stages) |-> "pending"]

AddNames(listing, names) ==
    listing \o SelectSeq(names, LAMBDA n : n \notin Range(listing))

(* main.py 109-115 *)
Start ==
    /\ pc = "start"
    /\ log' = <<"Pipeline started">>
    /\ pc' = "extract"
    /\ UNCHANGED <<fvars, run, ra, ev, vis, started, outcome, exitStatus, hist>>

(* main.py 117-124 with etl/extract.py extract_eeoc_data() *)
Extract ==
    /\ pc = "extract"
    /\ started' = Append(started, "Extract")
    /\ IF source.exists
       THEN /\ extracted' =
                 [files |-> AddNames(extracted.files, <<"eeoc_data.csv">>),
                  content |-> ("eeoc_data.csv" :> source.table) @@ extracted.content]
            /\ log' = Append(log, "Extraction completed.")
            /\ outcome' = [outcome EXCEPT !["Extract"] = "ok"]
            /\ pc' = "transform"
            /\ UNCHANGED exitStatus
       ELSE /\ log' = Append(log, "Extraction failed")
            /\ outcome' = [outcome EXCEPT !["Extract"] = "failed"]
            /\ pc' = AfterFailure("Extract", "transform")
            /\ exitStatus' = StatusAfterFailure("Extract")
            /\ UNCHANGED extracted
    /\ UNCHANGED <<source, procDir, processed, disk, run, ra, ev, vis, hist>>

MainChoices == {<<"1">>, <<"0">>, <<"2">>, <<"a">>}

(* main.py 126-135 with transform_data(); the choice is what the user types *)
Transform ==
    /\ pc = "transform"
    /\ started' = Append(started, "Transform")
    /\ \E ch \in MainChoices :
         LET t == transform_data(extracted.files, extracted.content, ch, procDir)
         IN  IF t.ret = "df"
             THEN /\ processed' =
                       [files |-> AddNames(processed.files,
                                     <<PlainName("missing_values_summary.csv"),
                                       PlainName("numeric_summary_stats.csv"),
                                       TransformedName(t.wrote[1])>>),
                        content |-> (TransformedName(t.wrote[1]) :> t.file)
                                       @@ processed.content]
                  /\ log' = Append(log, "Transformation completed.")
                  /\ outcome' = [outcome EXCEPT !["Transform"] = "ok"]
                  /\ pc' = "analyze"
                  /\ UNCHANGED exitStatus
             ELSE /\ log' = Append(log, "Transformation failed")
                  /\ outcome' = [outcome EXCEPT !["Transform"] = "failed"]
                  /\ pc' = AfterFailure("Transform", "analyze")
                  /\ exitStatus' = StatusAfterFailure("Transform")
                  /\ UNCHANGED processed
    /\ UNCHANGED <<source, extracted, procDir, disk, run, ra, ev, vis, hist>>

(* main.py 137-146 with run_analysis() *)
Analyze ==
    /\ pc = "analyze"
    /\ started' = Append(started, "Analyze")
    /\ LET a == run_analysis(processed.files, processed.content, run)
       IN  /\ ra' = a
           /\ hist' = Append(hist, [input |-> processed, ra |-> a])
           /\ disk' = [k \in FileKeys |->
                          IF k \in a.wrote THEN Written(run, a.files[k]) ELSE disk[k]]
           /\ IF a.ret = "df"
              THEN /\ log' = Append(log, "Analysis completed successfully.")
                   /\ outcome' = [outcome EXCEPT !["Analyze"] = "ok"]
                   /\ pc' = "dict"
                   /\ UNCHANGED exitStatus
              ELSE /\ log' = Append(log, "Analysis failed: Analysis returned no data")
                   /\ outcome' = [outcome EXCEPT !["Analyze"] = "failed"]
                   /\ pc' = AfterFailure("Analyze", "dict")
                   /\ exitStatus' = StatusAfterFailure("Analyze")
    /\ UNCHANGED <<source, extracted, procDir, processed, run, ev, vis>>

(* main.py 148-152 with save_data_dictionary() *)
DataDictionary ==
    /\ pc = "dict"
    /\ log' = Append(log, IF ra.ret = "df" THEN "Data dictionary saved"
                          ELSE "Saving data dictionary failed")
    /\ pc' = "evaluate"
    /\ UNCHANGED <<fvars, run, ra, ev, vis, started, outcome, exitStatus, hist>>

(* main.py 155-161 with evaluate_models() *)
Evaluate ==
    /\ pc = "evaluate"
    /\ started' = Append(started, "Evaluate")
    /\ LET e == evaluate_models(disk)
       IN  /\ ev' = e
           /\ disk' = [k \in FileKeys |->
                          IF k \in e.wrote THEN Written(run, e.score) ELSE disk[k]]
           /\ IF e.raised
              THEN /\ log' = Append(log, "Evaluation failed")
                   /\ outcome' = [outcome EXCEPT !["Evaluate"] = "failed"]
                   /\ pc' = AfterFailure("Evaluate", "visualize")
                   /\ exitStatus' = StatusAfterFailure("Evaluate")
              ELSE /\ log' = Append(log, "Evaluation completed successfully.")
                   /\ outcome' = [outcome EXCEPT !["Evaluate"] = "ok"]
                   /\ pc' = "visualize"
                   /\ UNCHANGED exitStatus
    /\ UNCHANGED <<source, extracted, procDir, processed, run, ra, vis, hist>>

(* main.py 163-171 with visualize_all() *)
Visualize ==
    /\ pc = "visualize"
    /\ started' = Append(started, "Visualize")
    /\ \E plotOk \in BOOLEAN :
         LET v == visualize_all(disk, plotOk)
         IN  /\ vis' = v
             /\ IF v.raised
                THEN /\ outcome' = [outcome EXCEPT !["Visualize"] = "failed"]
                     /\ pc' = AfterFailure("Visualize", "done")
                     /\ exitStatus' = StatusAfterFailure("Visualize")
                     /\ log' = log \o <<"Visualization failed">>
                                 \o (IF CriticalStage("Visualize") THEN <<>>
                                     ELSE <<"Pipeline complete!">>)
                ELSE /\ outcome' = [outcome EXCEPT !["Visualize"] = "ok"]
                     /\ pc' = "done"
                     /\ log' = log \o <<"Visualization completed successfully.",
                                        "Pipeline complete!">>
                     /\ UNCHANGED exitStatus
    /\ UNCHANGED <<fvars, run, ra, ev, hist>>

----------------------------------------------------------------------------
(* Parts of the model that a specification leaves idle *)

TIdle == [ret |-> "None", df |-> EmptyTable, msgs |-> <<>>, raised |-> FALSE,
          read |-> <<>>, wrote |-> <<>>, file |-> EmptyTable]

TUnused == tIn = [files |-> <<>>] /\ tPc = "unused" /\ tOut = TIdle

DIdle == dIn = EmptyTable /\ dPc = "unused" /\ dOut = <<>>

NoFiles == [k \in FileKeys |-> Absent]

FreshRun ==
    /\ log = <<>>
    /\ ra = ANone("")
    /\ ev = ENone
    /\ vis = VNone
    /\ started = <<>>
    /\ outcome = NoOutcome
    /\ exitStatus = 0

EmptyFolders ==
    /\ extracted = [files |-> <<>>, content |-> <<>>]
    /\ processed = [files |-> <<>>, content |-> <<>>]
    /\ disk = NoFiles
    /\ hist = <<>>

PUnused ==
    /\ source = [exists |-> FALSE, table |-> EmptyTable]
    /\ procDir = FALSE
    /\ EmptyFolders
    /\ FreshRun
    /\ pc = "unused"
    /\ run = 0

----------------------------------------------------------------------------
(* transform_data run on its own (python etl/transform.py) *)

TxtVals == {<<"a">>, <<" ", "a">>, <<" ">>}

TCells(c) ==
    IF IsText(c) THEN {Txt(s) : s \in TxtVals} \cup {Null}
    ELSE IF c = "WHT10" THEN {Num(1), Null}
    ELSE {Num(2)}

TSchemas == {{"NAICS2_Name", "WHT10", "TOTAL10"}, {"Region", "WHT10"}}

TRows(cols) == {r \in [cols -> UNION {TCells(c) : c \in cols}] :
                  \A c \in cols : r[c] \in TCells(c)}

SeqsUpTo(S, n) == UNION {[1..k -> S] : k \in 0..n}

RawTables == UNION {{[cols |-> cols, rows |-> rs] : rs \in SeqsUpTo(TRows(cols), MaxTRows)} :
                      cols \in TSchemas}

OtherTable ==
    [cols |-> {"Region", "WHT10"},
     rows |-> <<[c \in {"Region", "WHT10"} |-> IF c = "Region" THEN Txt(<<"a">>) ELSE Num(1)]>>]

FileNames == <<"f1.csv", "f2.csv", "f3.csv", "f4.csv">>

Choices == {<<"1">>, <<"2">>, <<"3">>, <<"0">>, <<"-", "1">>, <<"a">>, <<>>, <<" ", "1">>}

InitT ==
    /\ \E n \in 0..MaxFiles, t \in RawTables, ch \in Choices, pd \in BOOLEAN :
          tIn = [files |-> SubSeq(FileNames, 1, n),
                 content |-> [f \in SeqToSet(SubSeq(FileNames, 1, n)) |->
                                IF f = "f1.csv" THEN t ELSE OtherTable],
                 choice |-> ch, procDir |-> pd]
    /\ tPc = "idle"
    /\ tOut = TIdle
    /\ DIdle
    /\ PUnused

(* one call of transform_data *)
TransformCall ==
    /\ tPc = "idle"
    /\ tOut' = transform_data(tIn.files, tIn.content, tIn.choice, tIn.procDir)
    /\ tPc' = "done"
    /\ UNCHANGED <<tIn, dvars, pvars>>

NextT == TransformCall

SpecT == InitT /\ [][NextT]_vars

----------------------------------------------------------------------------
(* Claims about transform_data *)

NoDuplicateRows(rows) ==
    \A i, j \in DOMAIN rows : i # j => rows[i] # rows[j]

NoNullRows(rows) == \A i \in DOMAIN rows : ~HasNull(rows[i])

TReturned == tPc = "done" /\ tOut.ret = "df"

\* C1: the table transform_data returns and writes has no two identical rows
\* and no row with a null field.
C1_CleanOutput ==
    TReturned =>
        /\ NoDuplicateRows(tOut.df.rows) /\ NoNullRows(tOut.df.rows)
        /\ NoDuplicateRows(tOut.file.rows) /\ NoNullRows(tOut.file.rows)

----------------------------------------------------------------------------
(* The feature derivation on one record, over a range of counts and totals *)

CountCols == {"WHT10", "BLKT10", "HISPT10", "ASIANT10"}

DCols == CountCols \cup {"TOTAL10"}

DRows ==
    {[c \in DCols |-> IF c = "TOTAL10" THEN tot ELSE Num(cnt[c])] :
        cnt \in [CountCols -> 0..MaxCount],
        tot \in {Num(n) : n \in 0..MaxTotal} \cup {Null}}

InitD ==
    /\ \E r \in DRows : dIn = [cols |-> DCols, rows |-> <<r>>]
    /\ dPc = "idle"
    /\ dOut = <<>>
    /\ TUnused
    /\ PUnused

(* model.py 54-71 applied to the table *)
DeriveFeatures ==
    /\ dPc = "idle"
    /\ dOut' = Enriched(dIn)
    /\ dPc' = "done"
    /\ UNCHANGED <<dIn, tvars, pvars>>

NextD == DeriveFeatures

SpecD == InitD /\ [][NextD]_vars

----------------------------------------------------------------------------
(* Claims about the derived fields *)

InUnitRange(x) == FLeq(FInt(0), x) /\ FLess(x, FInt(1))

OneShareIsAll(pct) ==
    \E p \in PctNames :
        /\ FEq(pct[p], FInt(100))
        /\ \A q \in PctNames \ {p} : FEq(pct[q], FInt(0))

SharesInRange(pct) ==
    /\ \A p \in PctNames : FLeq(FInt(0), pct[p])
    /\ \E p \in PctNames : FLess(FInt(0), pct[p])
    /\ FLeq(FSum(pct, PctCols), FInt(100))

DiversityClaim(e) ==
    /\ InUnitRange(e.Diversity_Index)
    /\ FEq(e.Diversity_Index, FInt(0)) <=> OneShareIsAll(e.pct)

AllFinite(pct) == \A p \in PctNames : IsFin(pct[p])

\* C7 as stated: every enriched record has its Diversity_Index in [0, 1), and
\* the index is 0 exactly when one share is 100 and the other three are 0.
\* Stated here for the records whose four percentage fields are finite, so
\* that a violation does not rest on the division by a zero total (C2).
C7_IndexInUnitRange ==
    dPc = "done" =>
        \A i \in DOMAIN dOut : AllFinite(dOut[i].pct) => DiversityClaim(dOut[i])

\* C7 amended: the same, for the enriched records whose four percentage fields
\* are non-negative, not all zero and sum to at most 100 (counts that are not
\* all zero and sum to at most the total).
C7_IndexInUnitRangeWhenSharesInRange ==
    dPc = "done" =>
        \A i \in DOMAIN dOut : SharesInRange(dOut[i].pct) => DiversityClaim(dOut[i])

\* C7 witness: an enriched record whose counts sum to less than the total and
\* whose index lies strictly between 0 and 1.
C7_Witness ==
    /\ dPc = "done"
    /\ \E i \in DOMAIN dOut :
          /\ SharesInRange(dOut[i].pct)
          /\ FLess(FSum(dOut[i].pct, PctCols), FInt(100))
          /\ FLess(FInt(0), dOut[i].Diversity_Index)

----------------------------------------------------------------------------
(* One pipeline run (python main.py) on a fresh data directory *)

Cell(n) == IF n < 0 THEN Null ELSE Num(n)

(* a row of the raw file: region, total and the four counts (a negative
   total stands for a missing one) *)
RawRow(region, total, w, b, h, a) ==
    [c \in {"Region", "TOTAL10", "WHT10", "BLKT10", "HISPT10", "ASIANT10"} |->
        IF c = "Region" THEN Txt(<<region>>)
        ELSE IF c = "TOTAL10" THEN Cell(total)
        ELSE IF c = "WHT10" THEN Num(w)
        ELSE IF c = "BLKT10" THEN Num(b)
        ELSE IF c = "HISPT10" THEN Num(h)
        ELSE Num(a)]

RowKinds ==
    {RawRow("N", 2, 2, 0, 0, 0), RawRow("S", 2, 2, 0, 0, 0), RawRow("S", 2, 1, 1, 0, 0),
     RawRow("N", 2, 0, 1, 1, 0), RawRow("S", 0, 1, 1, 1, 1), RawRow("N", 0, 0, 0, 0, 0),
     RawRow("S", 0 - 1, 1, 0, 0, 0)}

FullCols == {"Region", "TOTAL10", "WHT10", "BLKT10", "HISPT10", "ASIANT10"}

PSchemas == {FullCols, FullCols \ {"Region"}, FullCols \ {"ASIANT10"},
             FullCols \ {"TOTAL10"}}

Project(cols, rows) == [i \in DOMAIN rows |-> [c \in cols |-> rows[i][c]]]

PTables ==
    {[cols |-> cols, rows |-> Project(cols, rs)] :
        cols \in PSchemas, rs \in SeqsUpTo(RowKinds, MaxRows)}

Init ==
    /\ source \in {[exists |-> FALSE, table |-> EmptyTable]}
                     \cup {[exists |-> TRUE, table |-> t] : t \in PTables}
    /\ procDir \in BOOLEAN
    /\ EmptyFolders
    /\ FreshRun
    /\ pc = "start"
    /\ run = 1
    /\ TUnused
    /\ DIdle

Next ==
    \/ Start /\ UNCHANGED <<tvars, dvars>>
    \/ Extract /\ UNCHANGED <<tvars, dvars>>
    \/ Transform /\ UNCHANGED <<tvars, dvars>>
    \/ Analyze /\ UNCHANGED <<tvars, dvars>>
    \/ DataDictionary /\ UNCHANGED <<tvars, dvars>>
    \/ Evaluate /\ UNCHANGED <<tvars, dvars>>
    \/ Visualize /\ UNCHANGED <<tvars, dvars>>

Spec == Init /\ [][Next]_vars

----------------------------------------------------------------------------
(* Repeated pipeline runs on one data directory; the raw file may be replaced
   between runs *)

RunTables ==
    {[cols |-> FullCols, rows |-> rs] :
        rs \in {<<RawRow("N", 2, 2, 0, 0, 0), RawRow("S", 2, 2, 0, 0, 0),
                  RawRow("S", 2, 1, 1, 0, 0)>>,
                <<RawRow("N", 2, 2, 0, 0, 0), RawRow("S", 2, 1, 1, 0, 0)>>,
                <<RawRow("N", 2, 2, 0, 0, 0), RawRow("S", 2, 1, 1, 0, 0),
                  RawRow("N", 2, 0, 1, 1, 0)>>,
                <<RawRow("N", 2, 2, 0, 0, 0), RawRow("S", 2, 1, 1, 0, 0),
                  RawRow("S", 0, 1, 1, 1, 1)>>}}

InitRuns ==
    /\ source \in {[exists |-> TRUE, table |-> t] : t \in RunTables}
    /\ procDir = TRUE
    /\ EmptyFolders
    /\ FreshRun
    /\ pc = "start"
    /\ run = 1
    /\ TUnused
    /\ DIdle

(* main has returned or exited; the user runs python main.py again, on the
   same raw file or on another one *)
NextRun ==
    /\ pc \in {"done", "exit"}
    /\ run < MaxRuns
    /\ source' \in {[exists |-> TRUE, table |-> t] : t \in RunTables}
    /\ run' = run + 1
    /\ pc' = "start"
    /\ log' = <<>>
    /\ ra' = ANone("")
    /\ ev' = ENone
    /\ vis' = VNone
    /\ started' = <<>>
    /\ outcome' = NoOutcome
    /\ exitStatus' = 0
    /\ UNCHANGED <<extracted, procDir, processed, disk, hist>>

NextRuns ==
    \/ Next
    \/ NextRun /\ UNCHANGED <<tvars, dvars>>

SpecRuns == InitRuns /\ [][NextRuns]_vars

----------------------------------------------------------------------------
(* Claims about run_analysis and main *)

Analysed == ra.ret = "df"

RowCols(e) == DOMAIN e.row

TotalOf(e) == ToNumeric(e.row[TotalCol(RowCols(e))])

UsableTotal(e) == ~TotalOf(e).null /\ TotalOf(e).n # 0

\* C2: no row whose total is 0 or null is in df_clean or in a table derived
\* from it, and no surviving row has a non-finite percentage.
C2_NoZeroTotalRows ==
    /\ \A i \in DOMAIN ra.df : UsableTotal(ra.df[i]) /\ AllFinite(ra.df[i].pct)
    /\ \A k \in {DescStatsCsv, RegionRankedCsv} :
          disk[k].present =>
             \A i \in DOMAIN disk[k].data :
                UsableTotal(disk[k].data[i]) /\ AllFinite(disk[k].data[i].pct)

EmptyResult == ra.msgs = <<"No rows with complete demographic percentages found.">>

Attempted(stage) == stage \in Range(started)

\* C3 as stated: when the completeness filter drops every row the pipeline run
\* does not terminate and evaluate_models and visualize_all are still attempted.
C3_EmptyResultNotFatal ==
    EmptyResult =>
        /\ pc # "exit"
        /\ exitStatus = 0
        /\ pc = "done" => Attempted("Evaluate") /\ Attempted("Visualize")

\* C3 amended: when the completeness filter drops every row, run_analysis
\* returns None having written nothing, main logs the failure of the Analyze
\* stage and exits with status 1, and no later stage is started.
C3_EmptyResultEndsRun ==
    EmptyResult =>
        /\ ra.ret = "None" /\ ra.wrote = {}
        /\ pc = "exit" /\ exitStatus = 1
        /\ started = <<"Extract", "Transform", "Analyze">>
        /\ log[Len(log)] = "Analysis failed: Analysis returned no data"

\* C3 witness: a run whose analysis found no complete row and that has exited.
C3_Witness == EmptyResult /\ pc = "exit" /\ outcome["Analyze"] = "failed"

ClusterFailed == ra.cluster \in {"failed_fit", "failed_score"}

\* C4: a failure of the clustering step is reported and is not fatal: the
\* regression step is still reached in the same call (and run whenever there is
\* a Region column), run_analysis returns the enriched table, and main goes on
\* to the Evaluate and Visualize stages.
C4_ClusterFailureNotFatal ==
    ClusterFailed =>
        /\ "KMeans clustering failed" \in Range(ra.msgs)
        /\ ra.reg \in {"skipped", "failed", "ok"}
        /\ "Region" \in RowCols(ra.df[1]) => ra.reg \in {"failed", "ok"}
        /\ Analysed /\ ra.df # <<>> /\ InsightsTxt \in ra.wrote
        /\ outcome["Analyze"] = "ok"
        /\ pc \in {"dict", "evaluate", "visualize", "done"} /\ exitStatus = 0
        /\ pc = "done" => Attempted("Evaluate") /\ Attempted("Visualize")

\* C4 witness: a finished run in which clustering failed and the regression
\* was fitted.
C4_Witness == ClusterFailed /\ ra.reg = "ok" /\ pc = "done"

\* C5: a stage whose input file is absent prints the skip message for that
\* input and finishes without raising, whatever its other inputs are.
C5_AbsentInputsSkipped ==
    /\ (outcome["Analyze"] # "pending" /\ SelectSeq(processed.files, IsTransformed) = <<>>)
          => ra.msgs = <<"No transformed CSV file found. Run transform first.">>
    /\ ev.done =>
          /\ ~ev.raised
          /\ ~disk[ClusteredCsv].present =>
                "Clustered data not found, run model.py first." \in Range(ev.msgs)
          /\ ~disk[EvalRegScoreTxt].present =>
                "Regression results not found, run model.py first." \in Range(ev.msgs)
    /\ (vis.done /\ ~vis.raised) =>
          \A i \in DOMAIN VisInputs :
             ~disk[VisInputs[i]].present => VisMissing(VisInputs[i]) \in Range(vis.msgs)

IsPrefix(s, t) == Len(s) <= Len(t) /\ \A i \in DOMAIN s : s[i] = t[i]

\* C6: the stages start in the order Extract, Transform, Analyze, Evaluate,
\* Visualize; a stage starts only if the critical stages before it succeeded;
\* a failure of a critical stage ends the run with status 1 and starts nothing
\* more; a failure of Evaluate or Visualize is logged and the run goes on to
\* "Pipeline complete!".
C6_StageOrder ==
    /\ IsPrefix(started, Stages)
    /\ \A i \in DOMAIN started : \A j \in 1..3 : j < i => outcome[Stages[j]] = "ok"
    /\ \A j \in 1..3 :
          outcome[Stages[j]] = "failed" =>
             pc = "exit" /\ exitStatus = 1 /\ Len(started) = j
    /\ outcome["Evaluate"] = "failed" =>
          /\ pc \in {"visualize", "done"} /\ exitStatus = 0
          /\ "Evaluation failed" \in Range(log)
    /\ outcome["Visualize"] = "failed" =>
          /\ pc = "done" /\ exitStatus = 0
          /\ "Visualization failed" \in Range(log)
    /\ pc = "exit" => exitStatus = 1 /\ "Pipeline complete!" \notin Range(log)
    /\ pc = "done" =>
          /\ started = Stages
          /\ log[Len(log)] = "Pipeline complete!"
          /\ \A j \in 1..3 : outcome[Stages[j]] = "ok"

\* C6 witness: a run that reached "Pipeline complete!" although both Evaluate
\* and Visualize failed.
C6_Witness ==
    pc = "done" /\ outcome["Evaluate"] = "failed" /\ outcome["Visualize"] = "failed"

LabelsAssigned == ra.cluster \in {"ok", "failed_score"}

C10_DigestNamesWrittenFiles ==
    (InsightsTxt \in ra.wrote /\ AllFiniteX(Features(ra.df))) =>
        \A i \in DOMAIN ra.files[InsightsTxt] :
            ra.files[InsightsTxt][i] \in FileKeys =>
                /\ ra.files[InsightsTxt][i] \in ra.wrote
                /\ disk[ra.files[InsightsTxt][i]].run = run

----------------------------------------------------------------------------
(* Claims about the file selection of transform_data *)

ChoiceListed == IntOk(tIn.choice) /\ IntVal(tIn.choice) \in 1..Len(tIn.files)

\* C11: with N files listed, an input that is not an integer in 1..N gives
\* "Invalid selection. Exiting.", a return of None, no file read and no file
\* written; a file is read only for an input in 1..N, and it is the file
\* listed under that number.
C11_OnlyListedNumbersSelect ==
    (tPc = "done" /\ tIn.files # <<>>) =>
        /\ ~ChoiceListed =>
              /\ tOut.ret = "None" /\ ~tOut.raised
              /\ tOut.msgs = <<"Invalid selection. Exiting.">>
              /\ tOut.read = <<>> /\ tOut.wrote = <<>>
        /\ tOut.read # <<>> =>
              ChoiceListed /\ tOut.read = <<tIn.files[IntVal(tIn.choice)]>>

----------------------------------------------------------------------------
(* Claims about the files handed from run_analysis to the later stages *)

\* C12: after a run_analysis call that wrote the region comparison table and
\* the regression score, evaluate_models finds and prints the regression score
\* and visualize_all finds the region table and draws the region plot; neither
\* prints that its input was not found.
C12_ProducerConsumerPathsAgree ==
    (RegionRankedCsv \in ra.wrote /\ RegScoreTxt \in ra.wrote) =>
        /\ (ev.done /\ ~ev.raised) =>
              /\ "Regression evaluation:" \in Range(ev.msgs)
              /\ "Regression results not found, run model.py first." \notin Range(ev.msgs)
        /\ (vis.done /\ ~vis.raised) =>
              /\ VisRegionCsv \in vis.plots
              /\ VisMissing(VisRegionCsv) \notin Range(vis.msgs)

\* C13: over repeated pipeline runs on one data directory, evaluate_models and
\* visualize_all only score or plot a clustered_employers.csv written by the
\* run_analysis call of the same run; when this run's clustering step wrote no
\* such file, evaluate_models reports the clustered data as not found.  Stated
\* here for the evaluate_models calls that do not raise, so that a violation
\* does not rest on the uncaught scoring error (C5).
C13_OnlyThisRunsClustersScored ==
    /\ \A i \in DOMAIN ev.scored : ev.scored[i] = run
    /\ \A p \in vis.plotted : p[1] = ClusteredCsv => p[2] = run
    /\ (ev.done /\ ~ev.raised /\ ClusteredCsv \notin ra.wrote) =>
          "Clustered data not found, run model.py first." \in Range(ev.msgs)

----------------------------------------------------------------------------
(* Claims about the percentage column of transform_data *)

\* C14: whenever the raw file selected in transform_data has a WHT10 and a
\* TOTAL10 column, the table returned and written has a Pct_White column equal
\* to WHT10 / TOTAL10 * 100 in every row (the total being the column renamed
\* to Total_Employees).  Stated here for the files selected by a number in
\* 1..N, so that a violation does not rest on the selection by "0" (C11).
C14_PctWhiteAdded ==
    (TReturned /\ ChoiceListed
       /\ {"WHT10", "TOTAL10"} \subseteq tIn.content[tOut.read[1]].cols) =>
        /\ "Pct_White" \in tOut.df.cols
        /\ "Pct_White" \in tOut.file.cols
        /\ \A i \in DOMAIN tOut.df.rows :
              tOut.df.rows[i]["Pct_White"] =
                 Pct(tOut.df.rows[i]["WHT10"], tOut.df.rows[i]["Total_Employees"])

====
